---- MODULE Spec2Model ----
(***************************************************************************)
(* Model of the WebGL cube demo: main() (context acquisition, shader       *)
(* program setup, first draw, start of the animation loop) and the frame   *)
(* callback render(now) with its frame clock, rotation accumulator and     *)
(* rolling-average FPS tracker.                                            *)
(*                                                                         *)
(* JavaScript Numbers are modelled as exact rationals n/d (d > 0, lowest   *)
(* terms) extended with the IEEE-754 specials: d = 0 and n = 1 is          *)
(* +Infinity, n = -1 is -Infinity, n = 0 is NaN.  Rounding of finite       *)
(* values and the sign of zero are not modelled.                           *)
(***************************************************************************)
EXTENDS Integers, Sequences, FiniteSets, TLC

\* Capacity of the FPS ring (500 in the source), scaled down so that the
\* ring wraps within the explored runs.
maxFrames == 3
\* Largest host timestamp, in milliseconds, the display hands to render.
MaxNow == 3
\* Number of frame callbacks explored.
FrameLimit == 5

VARIABLES
    mainState,        \* "notrun" | "returned" | "threw" | "running"
    env,              \* what the host answered during main()
    initResult,       \* how initShaderProgram ended: "notcalled" | "null" | "program" | "threw"
    alerts,           \* alert() calls made, in order
    shadersCreated,   \* gl.createShader calls
    shadersDeleted,   \* gl.deleteShader calls
    buffersCreated,   \* initBuffers(gl) was called
    drawCalls,        \* drawScene calls (each issues one gl.drawElements)
    drawArg,          \* cubeRotation argument of the last drawScene call: <<>> is undefined
    pendingCallbacks, \* frame callbacks registered and not yet invoked
    previousTime,
    cubeRotation,
    deltaTime,
    frameTimes,
    frameCursor,
    numFrames,
    totalFPS,
    averageFPS,       \* <<>> before the first frame, else <<value of the const>>
    fpsText,          \* fpsElem.textContent
    nows              \* history: the millisecond timestamps given to render, in order

vars == <<mainState, env, initResult, alerts, shadersCreated, shadersDeleted,
          buffersCreated, drawCalls, drawArg, pendingCallbacks, previousTime,
          cubeRotation, deltaTime, frameTimes, frameCursor, numFrames, totalFPS,
          averageFPS, fpsText, nows>>

----------------------------------------------------------------------------
\* JavaScript Number arithmetic

Abs(x) == IF x < 0 THEN -x ELSE x

Max(a, b) == IF a >= b THEN a ELSE b

Min(a, b) == IF a <= b THEN a ELSE b

RECURSIVE GCD(_, _)
GCD(a, b) == IF b = 0 THEN a ELSE GCD(b, a % b)

Norm(n, d) ==
    LET g == GCD(Abs(n), d)
    IN  [n |-> IF n < 0 THEN -(Abs(n) \div g) ELSE n \div g, d |-> d \div g]

FromInt(i) == [n |-> i, d |-> 1]

Zero == FromInt(0)

One == FromInt(1)

NaN == [n |-> 0, d |-> 0]

IsNaN(a) == a.d = 0 /\ a.n = 0

IsInf(a) == a.d = 0 /\ a.n # 0

IsFinite(a) == a.d > 0

Sgn(a) == IF a.n < 0 THEN -1 ELSE 1

RNeg(a) == [n |-> -a.n, d |-> a.d]

RAdd(a, b) ==
    IF IsNaN(a) \/ IsNaN(b) THEN NaN
    ELSE IF IsInf(a) /\ IsInf(b) THEN (IF a.n = b.n THEN a ELSE NaN)
    ELSE IF IsInf(a) THEN a
    ELSE IF IsInf(b) THEN b
    ELSE Norm(a.n * b.d + b.n * a.d, a.d * b.d)

RSub(a, b) == RAdd(a, RNeg(b))

RMul(a, b) ==
    IF IsNaN(a) \/ IsNaN(b) THEN NaN
    ELSE IF IsInf(a) \/ IsInf(b)
         THEN (IF a.n = 0 \/ b.n = 0 THEN NaN
               ELSE [n |-> Sgn(a) * Sgn(b), d |-> 0])
    ELSE Norm(a.n * b.n, a.d * b.d)

RDiv(a, b) ==
    IF IsNaN(a) \/ IsNaN(b) THEN NaN
    ELSE IF IsInf(a) THEN (IF IsInf(b) THEN NaN ELSE [n |-> Sgn(a) * Sgn(b), d |-> 0])
    ELSE IF IsInf(b) THEN Zero
    ELSE IF b.n = 0 THEN (IF a.n = 0 THEN NaN ELSE [n |-> Sgn(a), d |-> 0])
    ELSE Norm(Sgn(b) * a.n * b.d, a.d * Abs(b.n))

\* a <= b on Numbers (false when either is NaN)
RLeq(a, b) ==
    IF IsNaN(a) \/ IsNaN(b) THEN FALSE
    ELSE IF a = b THEN TRUE
    ELSE IF IsInf(a) THEN a.n < 0
    ELSE IF IsInf(b) THEN b.n > 0
    ELSE a.n * b.d <= b.n * a.d

\* x || 0 : the operand when it is truthy, else 0 (undefined, 0 and NaN are falsy)
OrZero(arr, i) ==
    IF i + 1 > Len(arr) THEN Zero
    ELSE IF IsNaN(arr[i + 1]) \/ arr[i + 1] = Zero THEN Zero
    ELSE arr[i + 1]

\* Number.prototype.toFixed(1): nearest tenth, ties to the larger magnitude
toFixed1(x) ==
    IF IsNaN(x) THEN [kind |-> "NaN", neg |-> FALSE, tenths |-> 0]
    ELSE IF IsInf(x) THEN [kind |-> "Infinity", neg |-> x.n < 0, tenths |-> 0]
    ELSE [kind |-> "digits", neg |-> x.n < 0,
          tenths |-> (Abs(x.n) * 20 + x.d) \div (2 * x.d)]

----------------------------------------------------------------------------
\* Setup: main, initShaderProgram, loadShader

\* the guard dropped: main goes on without a context
noContext_dropped(glOK) == FALSE

\* if (!gl)
noContext(glOK) == ~glOK

loadShader(compileOK) ==
    [shader  |-> IF compileOK THEN "shader" ELSE "null",
     alerts  |-> IF compileOK THEN <<>> ELSE <<"compile">>,
     deleted |-> IF compileOK THEN 0 ELSE 1]

\* The source passes a null shader to gl.attachShader and a null program to
\* gl.getAttribLocation without a check.  Hosts differ: some throw a
\* TypeError for the null argument, some only record a GL error and go on.
\* nullThrows is the host's choice.
initShaderProgram(vsOK, fsOK, linkOK, nullThrows) ==
    LET vertexShader   == loadShader(vsOK)
        fragmentShader == loadShader(fsOK)
        nullShader     == vertexShader.shader = "null" \/ fragmentShader.shader = "null"
        threw          == nullShader /\ nullThrows
        linked         == ~nullShader /\ linkOK
    IN  [outcome |-> IF threw THEN "threw" ELSE IF linked THEN "program" ELSE "null",
         alerts  |-> vertexShader.alerts \o fragmentShader.alerts
                     \o (IF threw \/ linked THEN <<>> ELSE <<"link">>),
         created |-> 2,
         deleted |-> vertexShader.deleted + fragmentShader.deleted]

\* the callback not registered again
requestAnimationFrame_dropped(pending) == pending

\* requestAnimationFrame(render)
requestAnimationFrame(pending) == pending + 1

Hosts == [gl : BOOLEAN, vs : BOOLEAN, fs : BOOLEAN, link : BOOLEAN, nullThrows : BOOLEAN]

main ==
    /\ mainState = "notrun"
    /\ \E e \in Hosts :
        /\ env' = e
        /\ IF noContext(e.gl)
           THEN /\ alerts' = <<"nocontext">>
                /\ mainState' = "returned"
                /\ UNCHANGED <<initResult, shadersCreated, shadersDeleted,
                               buffersCreated, drawCalls, pendingCallbacks>>
           ELSE LET r == initShaderProgram(e.vs, e.fs, e.link, e.nullThrows)
                    \* gl.getAttribLocation(null, ...) on a host that throws
                    aborted == r.outcome = "threw" \/ (r.outcome = "null" /\ e.nullThrows)
                IN  /\ initResult' = r.outcome
                    /\ alerts' = r.alerts
                    /\ shadersCreated' = r.created
                    /\ shadersDeleted' = r.deleted
                    /\ IF aborted
                       THEN /\ mainState' = "threw"
                            /\ UNCHANGED <<buffersCreated, drawCalls, pendingCallbacks>>
                       ELSE /\ buffersCreated' = TRUE
                            /\ drawCalls' = drawCalls + 1
                            /\ pendingCallbacks' = requestAnimationFrame(pendingCallbacks)
                            /\ mainState' = "running"
    /\ UNCHANGED <<drawArg, previousTime, cubeRotation, deltaTime, frameTimes,
                   frameCursor, numFrames, totalFPS, averageFPS, fpsText, nows>>

----------------------------------------------------------------------------
\* The frame callback

\* the millisecond timestamp used as if it were seconds
ToSeconds_unconverted(now) == FromInt(now)

\* now *= 0.001
ToSeconds(now) == RMul(FromInt(now), [n |-> 1, d |-> 1000])

\* deltaTime = now - previousTime
Delta(now, prev) == RSub(now, prev)

\* the rotation advanced before the scene is drawn
DrawnRotation_advanced(rot, dt) == RAdd(rot, dt)

\* drawScene(gl, programInfo, buffers, cubeRotation): the rotation it is given
DrawnRotation(rot, dt) == rot

\* the accumulator overwritten instead of incremented
AdvanceRotation_reset(rot, dt) == dt

\* cubeRotation += deltaTime
AdvanceRotation(rot, dt) == RAdd(rot, dt)

\* const fps = 1 / deltaTime
Fps(dt) == RDiv(One, dt)

\* totalFPS += fps - (frameTimes[frameCursor] || 0)
NextTotal(total, fps, arr, cursor) == RAdd(total, RSub(fps, OrZero(arr, cursor)))

\* frameTimes[frameCursor++] = fps  (the array grows when the index is its length)
Store(arr, cursor, fps) ==
    IF cursor + 1 > Len(arr) THEN Append(arr, fps)
    ELSE [arr EXCEPT ![cursor + 1] = fps]

\* the fill count taken after the cursor has wrapped
NextNumFrames_afterWrap(n, cursor) == Max(n, (cursor + 1) % maxFrames)

\* numFrames = Math.max(numFrames, frameCursor), frameCursor already incremented
NextNumFrames(n, cursor) == Max(n, cursor + 1)

\* frameCursor++ ... frameCursor %= maxFrames
NextCursor(cursor) == (cursor + 1) % maxFrames

\* the sum divided by the capacity instead of the fill count
Average_byCapacity(total, n) == RDiv(total, FromInt(maxFrames))

\* const averageFPS = totalFPS / numFrames
Average(total, n) == RDiv(total, FromInt(n))

render(now) ==
    /\ mainState = "running"
    /\ pendingCallbacks >= 1
    /\ Len(nows) < FrameLimit
    /\ LET nowS  == ToSeconds(now)
           dt    == Delta(nowS, previousTime)
           fps   == Fps(dt)
           total == NextTotal(totalFPS, fps, frameTimes, frameCursor)
           nf    == NextNumFrames(numFrames, frameCursor)
           avg   == Average(total, nf)
       IN  /\ deltaTime' = dt
           /\ previousTime' = nowS
           /\ drawArg' = <<DrawnRotation(cubeRotation, dt)>>
           /\ drawCalls' = drawCalls + 1
           /\ cubeRotation' = AdvanceRotation(cubeRotation, dt)
           /\ totalFPS' = total
           /\ frameTimes' = Store(frameTimes, frameCursor, fps)
           /\ numFrames' = nf
           /\ frameCursor' = NextCursor(frameCursor)
           /\ averageFPS' = <<avg>>
           /\ fpsText' = toFixed1(avg)
           /\ pendingCallbacks' = requestAnimationFrame(pendingCallbacks - 1)
    /\ nows' = Append(nows, now)
    /\ UNCHANGED <<mainState, env, initResult, alerts, shadersCreated,
                   shadersDeleted, buffersCreated>>

Frame == \E now \in 0..MaxNow : render(now)

Init ==
    /\ mainState = "notrun"
    /\ env = [gl |-> FALSE, vs |-> FALSE, fs |-> FALSE, link |-> FALSE, nullThrows |-> FALSE]
    /\ initResult = "notcalled"
    /\ alerts = <<>>
    /\ shadersCreated = 0
    /\ shadersDeleted = 0
    /\ buffersCreated = FALSE
    /\ drawCalls = 0
    /\ drawArg = <<>>
    /\ pendingCallbacks = 0
    /\ previousTime = Zero
    /\ cubeRotation = Zero
    /\ deltaTime = Zero
    /\ frameTimes = <<>>
    /\ frameCursor = 0
    /\ numFrames = 0
    /\ totalFPS = Zero
    /\ averageFPS = <<>>
    /\ fpsText = [kind |-> "initial", neg |-> FALSE, tenths |-> 0]
    /\ nows = <<>>

Next == main \/ Frame

Spec == Init /\ [][Next]_vars

----------------------------------------------------------------------------
\* What the histories say, computed from the timestamps alone

Seconds(ms) == Norm(ms, 1000)

\* the delta of frame i: the first frame's is measured from 0
DeltaAt(h, i) == RSub(Seconds(h[i]), IF i = 1 THEN Zero ELSE Seconds(h[i - 1]))

FpsAt(h, i) == RDiv(One, DeltaAt(h, i))

RECURSIVE SumDeltas(_, _)
SumDeltas(h, k) == IF k = 0 THEN Zero ELSE RAdd(SumDeltas(h, k - 1), DeltaAt(h, k))

\* fps of frames lo..hi, added oldest first
RECURSIVE SumFps(_, _, _)
SumFps(h, lo, hi) == IF hi < lo THEN Zero ELSE RAdd(SumFps(h, lo, hi - 1), FpsAt(h, hi))

RECURSIVE SumSeq(_)
SumSeq(arr) == IF arr = <<>> THEN Zero ELSE RAdd(SumSeq(SubSeq(arr, 1, Len(arr) - 1)), arr[Len(arr)])

Monotone(h) == \A i \in 1..Len(h) - 1 : h[i] <= h[i + 1]

frames == Len(nows)

----------------------------------------------------------------------------
\* C1: after every FPS-tracker update totalFPS equals the sum of the samples
\* resident in frameTimes; once more than maxFrames updates have happened it
\* is the sum of exactly the last maxFrames fps values.
C1_TotalIsResidentSum ==
    frames >= 1 =>
        /\ totalFPS = SumSeq(frameTimes)
        /\ frames > maxFrames => totalFPS = SumFps(nows, frames - maxFrames + 1, frames)

\* C2: during warm-up (1 <= k < maxFrames updates) the average of the k-th
\* update is the mean of the k fps values inserted so far: their sum
\* divided by k, not by maxFrames.
C2_WarmupAverage ==
    (frames >= 1 /\ frames < maxFrames) =>
        averageFPS = <<RDiv(SumFps(nows, 1, frames), FromInt(frames))>>

C2_Witness ==
    /\ frames = maxFrames - 1
    /\ IsFinite(totalFPS)
    /\ averageFPS = <<RDiv(SumFps(nows, 1, frames), FromInt(frames))>>
    /\ averageFPS # <<RDiv(totalFPS, FromInt(maxFrames))>>

\* C3: once a frame with a zero delta has happened, neither the running sum
\* nor the reported average is infinite or NaN, on that frame or later.
C3_NoNonFiniteAfterZeroDelta ==
    (\E i \in 1..frames : DeltaAt(nows, i) = Zero) =>
        /\ IsFinite(totalFPS)
        /\ IsFinite(averageFPS[1])

\* C4: when a shader fails to compile or the program fails to link,
\* initShaderProgram returns null and main does not go on to render: no
\* drawScene call, no frame callback registered, no frame run.
C4_NoRenderAfterShaderFailure ==
    (mainState # "notrun" /\ env.gl /\ ~(env.vs /\ env.fs /\ env.link)) =>
        /\ initResult = "null"
        /\ drawCalls = 0
        /\ pendingCallbacks = 0
        /\ frames = 0

\* C5: without a graphics context main notifies the user and does nothing
\* more: no shader, no buffer, no draw call, no frame callback.
C5_NoContextNoWork ==
    (mainState # "notrun" /\ ~env.gl) =>
        /\ mainState = "returned"
        /\ alerts = <<"nocontext">>
        /\ initResult = "notcalled"
        /\ shadersCreated = 0
        /\ ~buffersCreated
        /\ drawCalls = 0
        /\ pendingCallbacks = 0
        /\ frames = 0

C5_Witness == mainState = "returned" /\ ~env.gl /\ Len(alerts) = 1

C7_FrameClock ==
    /\ frames = 0 => previousTime = Zero
    /\ frames >= 1 =>
        /\ previousTime = Seconds(nows[frames])
        /\ deltaTime = DeltaAt(nows, frames)
    /\ frames = 1 => deltaTime = Seconds(nows[1])

C7_Witness ==
    /\ frames = 2
    /\ nows = <<2, 3>>
    /\ previousTime = [n |-> 3, d |-> 1000]
    /\ deltaTime = [n |-> 1, d |-> 1000]

\* C8: frameCursor stays in 0..maxFrames-1 and is the number of updates
\* modulo maxFrames; numFrames stays in 0..maxFrames, is min(k, maxFrames)
\* after k updates and never decreases.
C8_CursorAndFill ==
    [][/\ frameCursor \in 0..maxFrames - 1
       /\ frameCursor = frames % maxFrames
       /\ numFrames = Min(frames, maxFrames)
       /\ frames' = frames + 1 =>
            /\ frameCursor' = (frameCursor + 1) % maxFrames
            /\ numFrames' = Min(frames', maxFrames)
            /\ numFrames' >= numFrames
            /\ numFrames = maxFrames => numFrames' = maxFrames]_vars

C8_Witness ==
    /\ frames = maxFrames + 1
    /\ numFrames = maxFrames
    /\ frameCursor = 1

\* C9 as stated: the rotation handed to drawScene in frame i already
\* includes frame i's delta.
C9_DrawnRotationIncludesDelta ==
    frames >= 1 => drawArg = <<SumDeltas(nows, frames)>>

\* C9 as amended: the scene is drawn before the rotation is advanced, so the
\* rotation handed to drawScene in frame i is the sum of the deltas of
\* frames 1..i-1, and the accumulator afterwards is that plus frame i's delta.
C9_DrawnRotationExcludesDelta ==
    frames >= 1 =>
        /\ drawArg = <<SumDeltas(nows, frames - 1)>>
        /\ cubeRotation = RAdd(drawArg[1], deltaTime)

C9_Witness ==
    /\ frames >= 2
    /\ deltaTime # Zero
    /\ drawArg # <<Zero>>
    /\ drawArg # <<cubeRotation>>

\* C10: once the loop runs, every frame callback completes, whatever its
\* delta, and leaves exactly one callback pending.
C10_OneCallbackPending ==
    mainState = "running" =>
        /\ pendingCallbacks = 1
        /\ drawCalls = frames + 1
        /\ frames >= 1 => fpsText = toFixed1(averageFPS[1])

C10_Witness ==
    /\ mainState = "running"
    /\ pendingCallbacks = 1
    /\ \E i \in 1..frames : DeltaAt(nows, i) = Zero
    /\ \E i \in 1..frames : ~RLeq(Zero, DeltaAt(nows, i))

====
